---- MODULE Spec2Model ----
\* Job dispatch loop and streaming ingestion pipeline of src/jobQueue.js,
\* with the job store (models/Job), the record store (models/Record) and the
\* object store reduced to the calls the queue makes on them.
EXTENDS Integers, Sequences, FiniteSets, TLC

\* ---------------------------------------------------------------- bounds
MaxJobs == 2        \* enqueueJob calls made in one behaviour
MaxFaults == 1      \* store and object-store calls that reject in one behaviour
NumLoops == 2       \* processQueue activations that can exist side by side
BulkLines == 99    \* well-formed lines at the head of the object
MaxFileLines == 3   \* lines of a small test file, the first one included
MaxRestarts == 1    \* times the server process is stopped and started again
MaxAgeLen == 3      \* characters of a generated age field
MaxEmailLen == 5    \* characters of a generated email field
MaxCsvLen == 5      \* characters of a generated line

\* ------------------------------------------------------ program constants
BATCH_SIZE == 100
ErrorLogLimit == 50
ErrorReportLimit == 10
DataSnippetLen == 100
MinAge == 0
MaxAge == 150

\* ------------------------------------------------------------------ text
\* A string is a sequence of one-character strings.
Min(a, b) == IF a < b THEN a ELSE b

IsSpace(c) == c \in {" ", "\t"}

IsDigit(c) == c \in {"0", "1", "2", "3", "4", "5", "6", "7", "8", "9"}

DigitVal(c) ==
  CASE c = "0" -> 0 [] c = "1" -> 1 [] c = "2" -> 2 [] c = "3" -> 3
    [] c = "4" -> 4 [] c = "5" -> 5 [] c = "6" -> 6 [] c = "7" -> 7
    [] c = "8" -> 8 [] c = "9" -> 9

RECURSIVE DropLeadingSpace(_)
DropLeadingSpace(s) ==
  IF s # <<>> /\ IsSpace(Head(s)) THEN DropLeadingSpace(Tail(s)) ELSE s

RECURSIVE DropTrailingSpace(_)
DropTrailingSpace(s) ==
  IF s # <<>> /\ IsSpace(s[Len(s)])
    THEN DropTrailingSpace(SubSeq(s, 1, Len(s) - 1))
    ELSE s

\* String.prototype.trim
trim(s) == DropTrailingSpace(DropLeadingSpace(s))

Upper == <<"A", "B", "C", "D", "E", "F", "G", "H", "I", "J", "K", "L", "M",
           "N", "O", "P", "Q", "R", "S", "T", "U", "V", "W", "X", "Y", "Z">>

Lower == <<"a", "b", "c", "d", "e", "f", "g", "h", "i", "j", "k", "l", "m",
           "n", "o", "p", "q", "r", "s", "t", "u", "v", "w", "x", "y", "z">>

LowerChar(c) ==
  IF \E i \in 1..26 : Upper[i] = c
    THEN Lower[CHOOSE i \in 1..26 : Upper[i] = c]
    ELSE c

\* the email stored as it was typed
keepCase(s) == s

\* String.prototype.toLowerCase
toLowerCase(s) == [i \in 1..Len(s) |-> LowerChar(s[i])]

\* String.prototype.substring(0, n)
substring(s, n) == SubSeq(s, 1, Min(n, Len(s)))

RECURSIVE NatToString(_)
NatToString(n) ==
  LET d == <<"0", "1", "2", "3", "4", "5", "6", "7", "8", "9">>[(n % 10) + 1]
  IN IF n < 10 THEN <<d>> ELSE Append(NatToString(n \div 10), d)

\* template-literal formatting of a number
NumToString(n) == IF n < 0 THEN <<"-">> \o NatToString(0 - n) ELSE NatToString(n)

\* parseCSVLine: the loop over the characters of the line, from index i on
RECURSIVE parseCSVFrom(_, _, _, _, _)
parseCSVFrom(line, i, fields, currentField, inQuotes) ==
  IF i > Len(line)
    THEN Append(fields, currentField)
    ELSE LET char == line[i]
         IN IF char = "\""
              THEN parseCSVFrom(line, i + 1, fields, currentField, ~inQuotes)
              ELSE IF char = "," /\ ~inQuotes
                THEN parseCSVFrom(line, i + 1, Append(fields, currentField),
                                  <<>>, inQuotes)
                ELSE parseCSVFrom(line, i + 1, fields,
                                  Append(currentField, char), inQuotes)

\* the loop with every comma a separator, quoted or not
RECURSIVE splitEveryComma(_, _, _, _)
splitEveryComma(line, i, fields, currentField) ==
  IF i > Len(line)
    THEN Append(fields, currentField)
    ELSE IF line[i] = ","
      THEN splitEveryComma(line, i + 1, Append(fields, currentField), <<>>)
      ELSE splitEveryComma(line, i + 1, fields,
                           IF line[i] = "\"" THEN currentField
                                             ELSE Append(currentField, line[i]))

parseCSVLineUnquoted(line) == splitEveryComma(line, 1, <<>>, <<>>)

parseCSVLine(line) == parseCSVFrom(line, 1, <<>>, <<>>, FALSE)

\* [^\s@]+
NoSpaceAt(s) == s # <<>> /\ \A i \in 1..Len(s) : ~IsSpace(s[i]) /\ s[i] # "@"

\* /^[^\s@]+@[^\s@]+$/.test(s): the pattern without its dot
emailRegexNoDot(s) ==
  \E a \in 1..Len(s) :
    /\ s[a] = "@"
    /\ NoSpaceAt(SubSeq(s, 1, a - 1))
    /\ NoSpaceAt(SubSeq(s, a + 1, Len(s)))

\* /^[^\s@]+@[^\s@]+\.[^\s@]+$/.test(s)
emailRegexTest(s) ==
  \E a \in 1..Len(s) : \E d \in 1..Len(s) :
    /\ a < d
    /\ s[a] = "@"
    /\ s[d] = "."
    /\ NoSpaceAt(SubSeq(s, 1, a - 1))
    /\ NoSpaceAt(SubSeq(s, a + 1, d - 1))
    /\ NoSpaceAt(SubSeq(s, d + 1, Len(s)))

RECURSIVE DigitPrefix(_, _, _)
\* value of the longest run of decimal digits at the head of s
DigitPrefix(s, acc, seen) ==
  IF s # <<>> /\ IsDigit(Head(s))
    THEN DigitPrefix(Tail(s), acc * 10 + DigitVal(Head(s)), TRUE)
    ELSE [nan |-> ~seen, val |-> acc]

\* parseInt(s) without a radix, for input with no "0x" prefix
parseInt(s) ==
  LET t == DropLeadingSpace(s)
      neg == t # <<>> /\ Head(t) = "-"
      signed == t # <<>> /\ Head(t) \in {"-", "+"}
      p == DigitPrefix(IF signed THEN Tail(t) ELSE t, 0, FALSE)
  IN [nan |-> p.nan, val |-> IF neg THEN 0 - p.val ELSE p.val]

\* ------------------------------------------------------------- pipeline
Msg(m, a) == [msg |-> m, arg |-> a]

\* fields[i] of a destructured array: <<>> stands for undefined
Field(fields, i) == IF i <= Len(fields) THEN <<fields[i]>> ELSE <<>>

\* !f || f.trim() === ''
Blank(f) == f = <<>> \/ f[1] = <<>> \/ trim(f[1]) = <<>>

NoFields == [name |-> <<>>, email |-> <<>>, age |-> <<>>, department |-> <<>>]

Reject(cat, m, a) == [ok |-> FALSE, cat |-> cat, error |-> Msg(m, a), clean |-> NoFields]

\* the checks with the email shape tested ahead of the blank-field tests
ValidateLineShapeFirst(trimmedLine) ==
  LET fields == parseCSVLine(trimmedLine)
      name == Field(fields, 1)
      email == Field(fields, 2)
      age == Field(fields, 3)
      department == Field(fields, 4)
      parsedAge == parseInt(trim(age[1]))
  IN IF Len(fields) < 2
       THEN Reject("malformedLine", "Insufficient fields (need at least name and email)", <<>>)
     ELSE IF ~emailRegexTest(trim(email[1]))
       THEN Reject("invalidEmail", "Invalid email format: ", email[1])
     ELSE IF Blank(name)
       THEN Reject("missingFields", "Name is required", <<>>)
     ELSE IF ~Blank(age) /\ parsedAge.nan
       THEN Reject("invalidAge", "Invalid age format: is not a number: ", age[1])
     ELSE IF ~Blank(age) /\ (parsedAge.val < MinAge \/ parsedAge.val > MaxAge)
       THEN Reject("invalidAge", "Invalid age value (must be 0-150): ",
                   NumToString(parsedAge.val))
     ELSE [ok |-> TRUE, cat |-> "", error |-> Msg("", <<>>),
           clean |->
             [name |-> trim(name[1]),
              email |-> toLowerCase(trim(email[1])),
              age |-> IF Blank(age) THEN <<>> ELSE <<parsedAge.val>>,
              department |-> IF department = <<>> \/ department[1] = <<>>
                               THEN <<>>
                               ELSE <<trim(department[1])>>]]

\* the checks of the per-line try block, in order, and the cleaned values the
\* record literal is built from; an absent age or department is <<>>
ValidateLine(trimmedLine) ==
  LET fields == parseCSVLine(trimmedLine)
      name == Field(fields, 1)
      email == Field(fields, 2)
      age == Field(fields, 3)
      department == Field(fields, 4)
      parsedAge == parseInt(trim(age[1]))
  IN IF Len(fields) < 2
       THEN Reject("malformedLine", "Insufficient fields (need at least name and email)", <<>>)
     ELSE IF Blank(name)
       THEN Reject("missingFields", "Name is required", <<>>)
     ELSE IF Blank(email)
       THEN Reject("missingFields", "Email is required", <<>>)
     ELSE IF ~emailRegexTest(trim(email[1]))
       THEN Reject("invalidEmail", "Invalid email format: ", email[1])
     ELSE IF ~Blank(age) /\ parsedAge.nan
       THEN Reject("invalidAge", "Invalid age format: is not a number: ", age[1])
     ELSE IF ~Blank(age) /\ (parsedAge.val < MinAge \/ parsedAge.val > MaxAge)
       THEN Reject("invalidAge", "Invalid age value (must be 0-150): ",
                   NumToString(parsedAge.val))
     ELSE [ok |-> TRUE, cat |-> "", error |-> Msg("", <<>>),
           clean |->
             [name |-> trim(name[1]),
              email |-> toLowerCase(trim(email[1])),
              age |-> IF Blank(age) THEN <<>> ELSE <<parsedAge.val>>,
              department |-> IF department = <<>> \/ department[1] = <<>>
                               THEN <<>>
                               ELSE <<trim(department[1])>>]]

\* the record literal
MakeRecord(clean, fileId, t) ==
  [name |-> clean.name, email |-> clean.email, age |-> clean.age,
   department |-> clean.department, uploadedFileId |-> fileId, processedAt |-> t]

\* what one iteration computes from the text of its line alone
ReadLine(line) ==
  [trimmedLine |-> trim(line), checked |-> ValidateLine(trim(line))]

ZeroCategories ==
  [missingFields |-> 0, invalidEmail |-> 0, invalidAge |-> 0,
   malformedLine |-> 0, other |-> 0]

\* the locals of processFileContent; pos is the index of the line being read
\* and awaiting says that the run is suspended in the insertMany of that line
NewRun ==
  [totalLines |-> 0, successfulInserts |-> 0, failedLines |-> 0,
   errors |-> <<>>, errorCategories |-> ZeroCategories, batch |-> <<>>,
   isFirstLine |-> TRUE, pos |-> 1, awaiting |-> FALSE]

\* the per-line catch block; cats are the counters as the try block left them
CatchLine(st, cats, error, trimmedLine) ==
  [st EXCEPT
     !.failedLines = @ + 1,
     !.errorCategories =
        IF cats.missingFields = 0 /\ cats.invalidEmail = 0
           /\ cats.invalidAge = 0 /\ cats.malformedLine = 0
          THEN [cats EXCEPT !.other = @ + 1]
          ELSE cats,
     !.errors =
        IF Len(@) < ErrorLogLimit
          THEN Append(@, [line |-> st.totalLines + 1, error |-> error,
                          data |-> substring(trimmedLine, DataSnippetLen)])
          ELSE @,
     !.awaiting = FALSE,
     !.pos = @ + 1]

\* one iteration with the skip of blank lines placed ahead of the header test
ProcessLineSkipFirst(st, rd, fileId, t) ==
  IF rd.trimmedLine = <<>> \/ rd.trimmedLine = <<",", ",", ",">>
    THEN [st EXCEPT !.pos = @ + 1]
    ELSE
      IF st.isFirstLine
        THEN [st EXCEPT !.isFirstLine = FALSE, !.pos = @ + 1]
        ELSE
          LET counted == [st EXCEPT !.totalLines = @ + 1]
              v == rd.checked
          IN IF ~v.ok
               THEN CatchLine(counted,
                              [counted.errorCategories EXCEPT ![v.cat] = @ + 1],
                              v.error, rd.trimmedLine)
               ELSE
                 LET pushed == [counted EXCEPT
                                  !.batch = Append(@, MakeRecord(v.clean, fileId, t))]
                 IN IF Len(pushed.batch) >= BATCH_SIZE
                      THEN [pushed EXCEPT !.awaiting = TRUE]
                      ELSE [pushed EXCEPT !.pos = @ + 1]

\* one iteration of the for-await loop, up to its insertMany call if it makes
\* one; rd is ReadLine of the line
ProcessLine(st, rd, fileId, t) ==
  IF st.isFirstLine
    THEN [st EXCEPT !.isFirstLine = FALSE, !.pos = @ + 1]
    ELSE
      IF rd.trimmedLine = <<>> \/ rd.trimmedLine = <<",", ",", ",">>
        THEN [st EXCEPT !.pos = @ + 1]
        ELSE
          LET counted == [st EXCEPT !.totalLines = @ + 1]
              v == rd.checked
          IN IF ~v.ok
               THEN CatchLine(counted,
                              [counted.errorCategories EXCEPT ![v.cat] = @ + 1],
                              v.error, rd.trimmedLine)
               ELSE
                 LET pushed == [counted EXCEPT
                                  !.batch = Append(@, MakeRecord(v.clean, fileId, t))]
                 IN IF Len(pushed.batch) >= BATCH_SIZE
                      THEN [pushed EXCEPT !.awaiting = TRUE]
                      ELSE [pushed EXCEPT !.pos = @ + 1]

\* at most n iterations of the for-await loop that leaves at the first line
\* that fails
RECURSIVE RunSomeBreak(_, _, _, _, _)
RunSomeBreak(st, rds, fileId, t, n) ==
  IF n = 0 \/ st.awaiting \/ st.pos > Len(rds) \/ st.failedLines > 0
    THEN st
    ELSE RunSomeBreak(ProcessLine(st, rds[st.pos], fileId, t), rds, fileId, t, n - 1)

\* the for-await loop leaving at the first line that fails
RECURSIVE RunLinesBreak(_, _, _, _)
RunLinesBreak(st, rds, fileId, t) ==
  IF st.awaiting \/ st.pos > Len(rds) \/ st.failedLines > 0
    THEN st
    ELSE RunLinesBreak(RunSomeBreak(st, rds, fileId, t, 16), rds, fileId, t)

\* at most n iterations of the for-await loop, stopping at an insertMany call
\* or at the end of the stream
RECURSIVE RunSome(_, _, _, _, _)
RunSome(st, rds, fileId, t, n) ==
  IF n = 0 \/ st.awaiting \/ st.pos > Len(rds)
    THEN st
    ELSE RunSome(ProcessLine(st, rds[st.pos], fileId, t), rds, fileId, t, n - 1)

\* the for-await loop from the current line to its next insertMany call or
\* to the end of the stream; rds are the lines of the stream, read
RECURSIVE RunLines(_, _, _, _)
RunLines(st, rds, fileId, t) ==
  IF st.awaiting \/ st.pos > Len(rds)
    THEN st
    ELSE RunLines(RunSome(st, rds, fileId, t, 16), rds, fileId, t)

\* the threshold flush without batch.length = 0
FlushDoneKeep(st) ==
  [st EXCEPT !.successfulInserts = @ + Len(st.batch),
             !.awaiting = FALSE,
             !.pos = @ + 1]

\* insertMany of the threshold flush returned
FlushDone(st) ==
  [st EXCEPT !.successfulInserts = @ + Len(st.batch),
             !.batch = <<>>,
             !.awaiting = FALSE,
             !.pos = @ + 1]

\* insertMany of the threshold flush threw: the per-line catch block runs
FlushThrew(st, rds, error) ==
  CatchLine(st, st.errorCategories, error, rds[st.pos].trimmedLine)

\* ---- Number arithmetic (IEEE 754 binary64) on positive values: a Number is
\* [zero, m, e] with m its Precision significand bits, leading bit first, and e
\* the exponent of the leading bit
Precision == 53

NumberZero == [zero |-> TRUE, m |-> <<>>, e |-> 0]

\* the binary digits of a natural number, none for 0
RECURSIVE NatBits(_)
NatBits(n) == IF n = 0 THEN <<>> ELSE Append(NatBits(n \div 2), n % 2)

RECURSIVE BitsNat(_)
BitsNat(bits) ==
  IF bits = <<>> THEN 0
  ELSE 2 * BitsNat(SubSeq(bits, 1, Len(bits) - 1)) + bits[Len(bits)]

\* bits + 1, one bit longer when every bit was 1
RECURSIVE IncBits(_)
IncBits(bits) ==
  IF bits = <<>> THEN <<1>>
  ELSE IF bits[Len(bits)] = 0
    THEN Append(SubSeq(bits, 1, Len(bits) - 1), 1)
    ELSE Append(IncBits(SubSeq(bits, 1, Len(bits) - 1)), 0)

\* round to nearest, ties to even: bits are the digits of the exact value from
\* its leading 1 on, sticky says that nonzero digits follow them, and e is the
\* exponent of the leading digit
RoundToNumber(bits, sticky, e) ==
  LET padded == bits \o [i \in 1..(Precision + 1 - Min(Precision + 1, Len(bits))) |-> 0]
      kept == SubSeq(padded, 1, Precision)
      guard == padded[Precision + 1]
      rest == sticky \/ \E i \in (Precision + 2)..Len(padded) : padded[i] = 1
      up == guard = 1 /\ (rest \/ kept[Precision] = 1)
      inc == IncBits(kept)
  IN IF ~up THEN [zero |-> FALSE, m |-> kept, e |-> e]
     ELSE IF Len(inc) > Precision
       THEN [zero |-> FALSE, m |-> SubSeq(inc, 1, Precision), e |-> e + 1]
       ELSE [zero |-> FALSE, m |-> inc, e |-> e]

RECURSIVE Pow2(_)
Pow2(k) == IF k = 0 THEN 1 ELSE 2 * Pow2(k - 1)

\* the n low binary digits of a natural number
FixedBits(v, n) == [i \in 1..n |-> (v \div Pow2(n - i)) % 2]

\* long arithmetic on the digits goes ChunkBits digits at a time
ChunkBits == 16

\* the next n digits of r / t in binary, for r < t, and the remainder left
RECURSIVE QuotientBits(_, _, _)
QuotientBits(r, t, n) ==
  IF n = 0 THEN [bits |-> <<>>, rem |-> r]
  ELSE LET w == Min(n, ChunkBits)
           rest == QuotientBits((r * Pow2(w)) % t, t, n - w)
       IN [bits |-> FixedBits((r * Pow2(w)) \div t, w) \o rest.bits,
           rem |-> rest.rem]

\* the k with t <= s * 2^k, for 0 < s <= t
RECURSIVE LeadShift(_, _)
LeadShift(s, t) == IF s >= t THEN 0 ELSE 1 + LeadShift(2 * s, t)

\* s / t for integers 0 <= s <= t, t > 0
NumberDivide(s, t) ==
  IF s = 0 THEN NumberZero
  ELSE LET k == LeadShift(s, t)
           q == QuotientBits(s * Pow2(k) - t, t, Precision)
       IN RoundToNumber(<<1>> \o q.bits, q.rem # 0, 0 - k)

\* the digits of bits * c + carry, for a small natural c
RECURSIVE TimesBits(_, _, _)
TimesBits(bits, c, carry) ==
  IF Len(bits) <= ChunkBits THEN NatBits(BitsNat(bits) * c + carry)
  ELSE LET d == BitsNat(SubSeq(bits, Len(bits) - ChunkBits + 1, Len(bits))) * c + carry
       IN TimesBits(SubSeq(bits, 1, Len(bits) - ChunkBits), c, d \div Pow2(ChunkBits))
            \o FixedBits(d % Pow2(ChunkBits), ChunkBits)

\* x * c for a small natural c > 0
NumberTimes(x, c) ==
  IF x.zero THEN NumberZero
  ELSE LET p == TimesBits(x.m, c, 0)
       IN RoundToNumber(p, FALSE, x.e + Len(p) - Precision)

\* Math.round(x): the nearest integer, a tie going up; for x below 2^Precision
MathRound(x) ==
  IF x.zero \/ x.e < 0 - 1 THEN 0
  ELSE IF x.e = 0 - 1 THEN 1
  ELSE BitsNat(SubSeq(x.m, 1, x.e + 1)) + x.m[x.e + 2]

\* Math.round((successfulInserts / totalLines) * 100)
RoundPercent(successfulInserts, totalLines) ==
  MathRound(NumberTimes(NumberDivide(successfulInserts, totalLines), 100))

\* the returned object with every retained error sample
MakeResultAllErrors(st, successfulInserts) ==
  [totalLines |-> st.totalLines,
   successfulInserts |-> successfulInserts,
   failedLines |-> st.failedLines,
   successRate |-> IF st.totalLines > 0
                     THEN RoundPercent(successfulInserts, st.totalLines)
                     ELSE 0,
   errorCategories |-> st.errorCategories,
   errors |-> st.errors]

\* the object returned by processFileContent (summary is a rendering of
\* successfulInserts, totalLines and successRate)
MakeResult(st, successfulInserts) ==
  [totalLines |-> st.totalLines,
   successfulInserts |-> successfulInserts,
   failedLines |-> st.failedLines,
   successRate |-> IF st.totalLines > 0
                     THEN RoundPercent(successfulInserts, st.totalLines)
                     ELSE 0,
   errorCategories |-> st.errorCategories,
   errors |-> SubSeq(st.errors, 1, Min(ErrorReportLimit, Len(st.errors)))]

\* ---------------------------------------------------------- object store
Header == <<"n", "a", "m", "e", ",", "e", "m", "a", "i", "l", ",", "a", "g", "e", ",", "d", "e", "p", "a", "r", "t", "m", "e", "n", "t">>

\* "u<i>,u<i>@b.c"
BulkLine(i) ==
  <<"u">> \o NatToString(i) \o <<",", "u">> \o NatToString(i) \o <<"@", "b", ".", "c">>

FirstLine == <<"A", "l", ",", "A", "@", "b", ".", "c", ",", "3", "0", ",", "E", "n", "g">>

BadLines ==
  <<<<"B", "o", ",", "b", "o", "-", "a", "t", ",", "3", "5", ",", "O", "p", "s">>,
    <<>>,
    <<",", ",", ",">>,
    <<"s", "o", "l", "o">>,
    <<",", "x", "@", "b", ".", "c">>,
    <<"C", "y", ",", "c", "@", "d", ".", "e", ",", "a", "b", "c">>,
    <<"D", "i", ",", "d", "@", "e", ".", "f", ",", "1", "5", "1">>>>

LastLine == <<"\"", "E", "d", ",", " ", "J", "r", "\"", ",", "e", "@", "f", ".", "g", ",", ",", " ", " ">>

\* the line kinds the small test files are made of: a well-formed line to be
\* trimmed and lower-cased, a whitespace-only line, a padded ',,,' line, a
\* one-field line, and lines that break several rules at once
LineKinds ==
  <<<<" ", "A", "l", " ", ",", " ", "A", "@", "b", ".", "c", " ", ",", "7">>,
    <<" ", " ">>,
    <<" ", ",", ",", ",">>,
    <<"s", "o", "l", "o">>,
    <<",", "x", ",", "a", "b", "c">>,
    <<"n", ",", "x", ",", "a", "b", "c">>,
    <<"n", ",", "a", "@", "b", ".", "c", ",", "1", "5", "1">>>>

\* every file of at most MaxFileLines lines over the line kinds
FileCodes == UNION {[1..n -> DOMAIN LineKinds] : n \in 0..MaxFileLines}

\* an object key is a sequence of strings: a name, or a tag and the text or
\* the line kinds the object is generated from
SmallFiles ==
  [k \in {<<"small">> \o [i \in 1..Len(c) |-> ToString(c[i])] : c \in FileCodes} |->
     [i \in 1..(Len(k) - 1) |->
        LineKinds[CHOOSE n \in DOMAIN LineKinds : ToString(n) = k[i + 1]]]]

\* "n,x<i>": a line whose email has no '@'
BadLine(i) == <<"n", ",", "x">> \o NatToString(i)

\* 40 data lines, 17 of them bad, interleaved with 23 good ones
RatioFile ==
  <<Header>> \o [i \in 1..40 |-> IF i <= 34 /\ i % 2 = 0 THEN BadLine(i) ELSE BulkLine(i)]

\* a bad line ahead of a full batch and one more good line
MixedFile ==
  <<Header, BadLine(0)>> \o [i \in 1..BATCH_SIZE |-> BulkLine(i)] \o <<FirstLine>>

\* two full batches and one more line
LongFile ==
  <<Header>> \o [i \in 1..(2 * BATCH_SIZE + 1) |-> BulkLine(i)]

DataFile ==
  <<Header, FirstLine>> \o [i \in 1..BulkLines |-> BulkLine(i)]
    \o BadLines \o <<LastLine>>

\* every text of at most n characters over chars
Texts(chars, n) == UNION {[1..k -> chars] : k \in 0..n}

AgeChars == {"0", "1", "5", "-", "a", " "}

EmailChars == {"A", "@", ".", " "}

CsvChars == {"a", ",", "\""}

\* a line with the given age, padded, between a good email and a department
AgeLine(age) ==
  <<"n", ",", "a", "@", "b", ".", "c", ",", " ">> \o age \o <<" ", ",", "d">>

\* a line with no age field
NoAgeLine == <<"n", ",", "a", "@", "b", ".", "c">>

\* a line with the given email, padded, between a name and an age
EmailLine(email) == <<"n", ",", " ">> \o email \o <<" ", ",", "7">>

\* the one-line files of the field and line texts
LineObjects ==
  [k \in {<<"age">> \o t : t \in Texts(AgeChars, MaxAgeLen)} |->
     <<Header, AgeLine(Tail(k))>>]
  @@ [k \in {<<"noage">>} |-> <<Header, NoAgeLine>>]
  @@ [k \in {<<"email">> \o t : t \in Texts(EmailChars, MaxEmailLen)} |->
        <<Header, EmailLine(Tail(k))>>]
  @@ [k \in {<<"csv">> \o t : t \in Texts(CsvChars, MaxCsvLen)} |->
        <<Header, Tail(k)>>]

FileObjects ==
  [k \in {<<"data.csv">>, <<"ratio.csv">>, <<"mixed.csv">>, <<"long.csv">>} |->
     CASE k = <<"data.csv">> -> DataFile
       [] k = <<"ratio.csv">> -> RatioFile
       [] k = <<"mixed.csv">> -> MixedFile
       [] k = <<"long.csv">> -> LongFile] @@ SmallFiles

\* the objects of the bucket, by key, each as the lines readline yields
Objects == FileObjects @@ LineObjects

\* the lines of each object as the for-await loop reads them
Streams == [k \in DOMAIN Objects |-> [i \in DOMAIN Objects[k] |-> ReadLine(Objects[k][i])]]

Uploads == {<<"f1", <<"data.csv">>>>, <<"f2", <<"gone.csv">>>>}

\* one request for each file of the bucket and one for a missing object
FileUploads == {<<"f1", k>> : k \in DOMAIN FileObjects} \cup {<<"f2", <<"gone.csv">>>>}

\* one request for each one-line file
LineUploads == {<<"f1", k>> : k \in DOMAIN LineObjects}

\* ----------------------------------------------------------------- state
VARIABLES
  now,           \* Date.now(); a millisecond passes when a job is constructed
  jobs,          \* the job collection, documents in insertion order
  records,       \* the record collection, documents in insertion order
  isProcessing,  \* this.isProcessing of each JobQueue instance
  calls,         \* the enqueueJob calls made so far, with their position
  loops,         \* the processQueue activations, with their locals
  owner,         \* the JobQueue instance each activation belongs to
  claimLog,      \* jobIds in the order their 'processing' save was applied
  insertLog,     \* the insertMany calls made so far: job, size, outcome
  faults,        \* the calls that have rejected so far
  quota,         \* the enqueueJob calls each instance will still receive
  restarts,      \* the times the server process has been started again
  lookup         \* what the latest getJobStatus call was asked and returned

vars == <<now, jobs, records, isProcessing, calls, loops, owner, claimLog, insertLog, faults, quota, restarts, lookup>>

Loops == 1..NumLoops

\* new Job({jobId, fileId, fileName, status: 'pending'}); 0 is an unset Date,
\* <<>> an unset result or error
NewJob(jobId, fileId, fileName, t) ==
  [jobId |-> jobId, fileId |-> fileId, fileName |-> fileName,
   status |-> "pending", createdAt |-> t, startedAt |-> 0, completedAt |-> 0,
   result |-> <<>>, error |-> <<>>]

NoJob == NewJob(0, "", <<>>, 0)

\* no getJobStatus call made yet
NoLookup == [jobId |-> 0, found |-> FALSE, job |-> NoJob]

IdleLoop == [pc |-> "idle", found |-> FALSE, job |-> NoJob, dirty |-> {}, run |-> NewRun]

StoreError == Msg("job store operation failed", <<>>)
S3Error == Msg("object store request failed", <<>>)
InsertError == Msg("insertMany failed", <<>>)

\* a save whose update has no filter on the jobId and writes the whole document
SaveJobUnfiltered(doc, dirty) == [i \in DOMAIN jobs |-> doc]

\* document.save() of an existing document: $set of the modified paths
SaveJob(doc, dirty) ==
  [i \in DOMAIN jobs |->
     IF jobs[i].jobId = doc.jobId
       THEN [f \in DOMAIN jobs[i] |-> IF f \in dirty THEN doc[f] ELSE jobs[i][f]]
       ELSE jobs[i]]

\* the query taking failed jobs as well as pending ones
OldestUnfinished ==
  {i \in DOMAIN jobs :
     /\ jobs[i].status \in {"pending", "failed"}
     /\ \A k \in DOMAIN jobs :
          jobs[k].status \in {"pending", "failed"}
            => jobs[i].createdAt <= jobs[k].createdAt}

\* Job.findOne({status: 'pending'}).sort({createdAt: 1}): the candidates
OldestPending ==
  {i \in DOMAIN jobs :
     /\ jobs[i].status = "pending"
     /\ \A k \in DOMAIN jobs :
          jobs[k].status = "pending" => jobs[i].createdAt <= jobs[k].createdAt}

Init ==
  /\ now = 1
  /\ jobs = <<>>
  /\ records = <<>>
  /\ owner = [l \in Loops |-> 1]
  /\ isProcessing = [d \in {1} |-> FALSE]
  /\ quota = [d \in {1} |-> MaxJobs]
  /\ calls = <<>>
  /\ loops = [l \in Loops |-> IdleLoop]
  /\ claimLog = <<>>
  /\ insertLog = <<>>
  /\ faults = 0
  /\ restarts = 0
  /\ lookup = NoLookup

\* two JobQueue instances (two server processes) on the same collections,
\* each receiving one request
InitTwo ==
  /\ now = 1
  /\ jobs = <<>>
  /\ records = <<>>
  /\ owner = [l \in Loops |-> IF l = 1 THEN 1 ELSE 2]
  /\ isProcessing = [d \in {1, 2} |-> FALSE]
  /\ quota = [d \in {1, 2} |-> 1]
  /\ calls = <<>>
  /\ loops = [l \in Loops |-> IdleLoop]
  /\ claimLog = <<>>
  /\ insertLog = <<>>
  /\ faults = 0
  /\ restarts = 0
  /\ lookup = NoLookup

\* one JobQueue instance that receives one request
InitFile ==
  /\ now = 1
  /\ jobs = <<>>
  /\ records = <<>>
  /\ owner = [l \in Loops |-> 1]
  /\ isProcessing = [d \in {1} |-> FALSE]
  /\ quota = [d \in {1} |-> 1]
  /\ calls = <<>>
  /\ loops = [l \in Loops |-> IdleLoop]
  /\ claimLog = <<>>
  /\ insertLog = <<>>
  /\ faults = 0
  /\ restarts = 0
  /\ lookup = NoLookup

\* --------------------------------------------------------------- actions
\* a call rejects; at most MaxFaults calls do in one behaviour
Fault == faults < MaxFaults /\ faults' = faults + 1

\* processQueue that starts its loop without raising the flag
processQueueNoFlag(d) ==
  IF isProcessing[d]
    THEN UNCHANGED <<isProcessing, loops>>
    ELSE \E l \in Loops :
           /\ owner[l] = d
           /\ loops[l].pc = "idle"
           /\ \A k \in Loops : (owner[k] = d /\ loops[k].pc = "idle") => l <= k
           /\ isProcessing' = isProcessing
           /\ loops' = [loops EXCEPT ![l] = [IdleLoop EXCEPT !.pc = "find"]]

\* processQueue up to its first await
processQueue(d) ==
  IF isProcessing[d]
    THEN UNCHANGED <<isProcessing, loops>>
    ELSE \E l \in Loops :
           /\ owner[l] = d
           /\ loops[l].pc = "idle"
           /\ \A k \in Loops : (owner[k] = d /\ loops[k].pc = "idle") => l <= k
           /\ isProcessing' = [isProcessing EXCEPT ![d] = TRUE]
           /\ loops' = [loops EXCEPT ![l] = [IdleLoop EXCEPT !.pc = "find"]]

\* enqueueJob up to the await of job.save()
EnqueueJob(d, fileId, fileName) ==
  /\ quota[d] > 0
  /\ quota' = [quota EXCEPT ![d] = @ - 1]
  /\ now' = now + 1
  /\ calls' = Append(calls,
                     [disp |-> d, pc |-> "save",
                      job |-> NewJob(Len(calls) + 1, fileId, fileName, now')])
  /\ UNCHANGED <<jobs, records, isProcessing, loops, owner, claimLog, insertLog, faults, restarts, lookup>>

\* the insert of job.save() is applied by the store
EnqueueSaved(c) ==
  /\ calls[c].pc = "save"
  /\ jobs' = Append(jobs, calls[c].job)
  /\ calls' = [calls EXCEPT ![c].pc = "saved"]
  /\ UNCHANGED <<now, records, isProcessing, loops, owner, claimLog, insertLog, faults, quota, restarts, lookup>>

\* job.save() rejects: enqueueJob rejects
EnqueueSaveThrew(c) ==
  /\ calls[c].pc = "save"
  /\ calls' = [calls EXCEPT ![c].pc = "threw"]
  /\ Fault
  /\ UNCHANGED <<now, jobs, records, isProcessing, loops, owner, claimLog, insertLog, quota, restarts, lookup>>

\* enqueueJob holding its return until no drain is active
EnqueueResumeIdle(c) ==
  /\ calls[c].pc = "saved"
  /\ ~isProcessing[calls[c].disp]
  /\ processQueue(calls[c].disp)
  /\ calls' = [calls EXCEPT ![c].pc = "returned"]
  /\ UNCHANGED <<now, jobs, records, owner, claimLog, insertLog, faults, quota, restarts, lookup>>

\* enqueueJob after the await: start the drain if idle, return the job
EnqueueResume(c) ==
  /\ calls[c].pc = "saved"
  /\ processQueue(calls[c].disp)
  /\ calls' = [calls EXCEPT ![c].pc = "returned"]
  /\ UNCHANGED <<now, jobs, records, owner, claimLog, insertLog, faults, quota, restarts, lookup>>

\* the findOne of the drain loop is evaluated by the store
DrainFind(l) ==
  /\ loops[l].pc = "find"
  /\ \/ /\ OldestPending = {}
        /\ loops' = [loops EXCEPT ![l].pc = "found", ![l].found = FALSE]
     \/ \E i \in OldestPending :
          loops' = [loops EXCEPT ![l].pc = "found", ![l].found = TRUE,
                                 ![l].job = jobs[i], ![l].dirty = {}]
  /\ UNCHANGED <<now, jobs, records, isProcessing, calls, owner, claimLog, insertLog, faults, quota, restarts, lookup>>

\* the findOne rejects: processQueue rejects
DrainFindThrew(l) ==
  /\ loops[l].pc = "find"
  /\ loops' = [loops EXCEPT ![l] = IdleLoop]
  /\ Fault
  /\ UNCHANGED <<now, jobs, records, isProcessing, calls, owner, claimLog, insertLog, quota, restarts, lookup>>

\* the loop after the await of findOne, with processJob not stamping startedAt
DrainResumeNoStamp(l) ==
  /\ loops[l].pc = "found"
  /\ IF ~loops[l].found
       THEN /\ isProcessing' = [isProcessing EXCEPT ![owner[l]] = FALSE]
            /\ loops' = [loops EXCEPT ![l] = IdleLoop]
       ELSE /\ loops' = [loops EXCEPT
                           ![l].pc = "mark",
                           ![l].job.status = "processing",
                           ![l].dirty = {"status"}]
            /\ UNCHANGED isProcessing
  /\ UNCHANGED <<now, jobs, records, calls, owner, claimLog, insertLog, faults, quota, restarts, lookup>>

\* the loop after the await of findOne: stop, or enter processJob up to the
\* await of the first job.save()
DrainResume(l) ==
  /\ loops[l].pc = "found"
  /\ IF ~loops[l].found
       THEN /\ isProcessing' = [isProcessing EXCEPT ![owner[l]] = FALSE]
            /\ loops' = [loops EXCEPT ![l] = IdleLoop]
       ELSE /\ loops' = [loops EXCEPT
                           ![l].pc = "mark",
                           ![l].job.status = "processing",
                           ![l].job.startedAt = now,
                           ![l].dirty = {"status", "startedAt"}]
            /\ UNCHANGED isProcessing
  /\ UNCHANGED <<now, jobs, records, calls, owner, claimLog, insertLog, faults, quota, restarts, lookup>>

\* the catch block without the completedAt stamp
CaughtNoStamp(lp, error) ==
  [lp EXCEPT !.pc = "fail",
             !.job.status = "failed",
             !.job.error = <<error>>,
             !.dirty = @ \cup {"status", "error"}]

\* the catch block of processJob up to the await of its job.save()
Caught(lp, error) ==
  [lp EXCEPT !.pc = "fail",
             !.job.status = "failed",
             !.job.completedAt = now,
             !.job.error = <<error>>,
             !.dirty = @ \cup {"status", "completedAt", "error"}]

\* processJob from the return of processFileContent to the await of job.save()
Completed(lp, result) ==
  [lp EXCEPT !.pc = "complete",
             !.job.status = "completed",
             !.job.completedAt = now,
             !.job.result = <<result>>,
             !.dirty = @ \cup {"status", "completedAt", "result"}]

\* processFileContent making its final insertMany call whatever the batch holds
AdvanceAlwaysInsert(lp, st0) ==
  LET st == RunLines(st0, Streams[lp.job.fileName], lp.job.fileId, now)
  IN IF st.awaiting
       THEN [lp EXCEPT !.pc = "flush", !.run = st]
       ELSE [lp EXCEPT !.pc = "finalflush", !.run = st]

\* processFileContent from a resumption to its next await or to its return
Advance(lp, st0) ==
  LET st == RunLines(st0, Streams[lp.job.fileName], lp.job.fileId, now)
  IN IF st.awaiting
       THEN [lp EXCEPT !.pc = "flush", !.run = st]
     ELSE IF Len(st.batch) > 0
       THEN [lp EXCEPT !.pc = "finalflush", !.run = st]
     ELSE Completed([lp EXCEPT !.run = st], MakeResult(st, st.successfulInserts))

\* the save that marks the job 'processing' is applied
MarkSaved(l) ==
  /\ loops[l].pc = "mark"
  /\ jobs' = SaveJob(loops[l].job, loops[l].dirty)
  /\ claimLog' = Append(claimLog, loops[l].job.jobId)
  /\ loops' = [loops EXCEPT ![l].pc = "download", ![l].dirty = {}]
  /\ UNCHANGED <<now, records, isProcessing, calls, owner, insertLog, faults, quota, restarts, lookup>>

\* that save rejects: the catch block runs
MarkThrew(l) ==
  /\ loops[l].pc = "mark"
  /\ loops' = [loops EXCEPT ![l] = Caught(@, StoreError)]
  /\ Fault
  /\ UNCHANGED <<now, jobs, records, isProcessing, calls, owner, claimLog, insertLog, quota, restarts, lookup>>

\* processFileContent with totalLines kept from a job completed before
DownloadDoneShared(l) ==
  /\ loops[l].pc = "download"
  /\ loops[l].job.fileName \in DOMAIN Objects
  /\ loops' = [loops EXCEPT ![l] =
                 Advance(@, [NewRun EXCEPT !.totalLines =
                               IF \E i \in DOMAIN jobs : jobs[i].status = "completed"
                                 THEN jobs[CHOOSE i \in DOMAIN jobs :
                                             jobs[i].status = "completed"].result[1].totalLines
                                 ELSE 0])]
  /\ UNCHANGED <<now, jobs, records, isProcessing, calls, owner, claimLog, insertLog, faults, quota, restarts, lookup>>

\* downloadFromS3 returns the stream; processFileContent runs to its first await
DownloadDone(l) ==
  /\ loops[l].pc = "download"
  /\ loops[l].job.fileName \in DOMAIN Objects
  /\ loops' = [loops EXCEPT ![l] = Advance(@, NewRun)]
  /\ UNCHANGED <<now, jobs, records, isProcessing, calls, owner, claimLog, insertLog, faults, quota, restarts, lookup>>

\* s3Client.send rejects (no such key, or a transport error)
DownloadThrew(l) ==
  /\ loops[l].pc = "download"
  /\ loops' = [loops EXCEPT ![l] = Caught(@, S3Error)]
  /\ IF loops[l].job.fileName \in DOMAIN Objects THEN Fault ELSE UNCHANGED faults
  /\ UNCHANGED <<now, jobs, records, isProcessing, calls, owner, claimLog, insertLog, quota, restarts, lookup>>

\* the insertMany of a full batch is applied
InsertManyDone(l) ==
  /\ loops[l].pc = "flush"
  /\ records' = records \o loops[l].run.batch
  /\ insertLog' = Append(insertLog, [job |-> loops[l].job.jobId,
                                     size |-> Len(loops[l].run.batch), ok |-> TRUE])
  /\ loops' = [loops EXCEPT ![l] = Advance(@, FlushDone(loops[l].run))]
  /\ UNCHANGED <<now, jobs, isProcessing, calls, owner, claimLog, faults, quota, restarts, lookup>>

\* the insertMany of a full batch rejects, inside the per-line try block
InsertManyThrew(l) ==
  /\ loops[l].pc = "flush"
  /\ insertLog' = Append(insertLog, [job |-> loops[l].job.jobId,
                                     size |-> Len(loops[l].run.batch), ok |-> FALSE])
  /\ loops' = [loops EXCEPT ![l] =
                 Advance(@, FlushThrew(loops[l].run, Streams[loops[l].job.fileName],
                                       InsertError))]
  /\ Fault
  /\ UNCHANGED <<now, jobs, records, isProcessing, calls, owner, claimLog, quota, restarts, lookup>>

\* the insertMany of the remaining records is applied; the result is built
FinalInsertDone(l) ==
  /\ loops[l].pc = "finalflush"
  /\ records' = records \o loops[l].run.batch
  /\ insertLog' = Append(insertLog, [job |-> loops[l].job.jobId,
                                     size |-> Len(loops[l].run.batch), ok |-> TRUE])
  /\ loops' = [loops EXCEPT ![l] =
                 Completed(@, MakeResult(loops[l].run,
                                         loops[l].run.successfulInserts
                                           + Len(loops[l].run.batch)))]
  /\ UNCHANGED <<now, jobs, isProcessing, calls, owner, claimLog, faults, quota, restarts, lookup>>

\* the insertMany of the remaining records rejects: processFileContent rejects
FinalInsertThrew(l) ==
  /\ loops[l].pc = "finalflush"
  /\ insertLog' = Append(insertLog, [job |-> loops[l].job.jobId,
                                     size |-> Len(loops[l].run.batch), ok |-> FALSE])
  /\ loops' = [loops EXCEPT ![l] = Caught(@, InsertError)]
  /\ Fault
  /\ UNCHANGED <<now, jobs, records, isProcessing, calls, owner, claimLog, quota, restarts, lookup>>

\* the save of the completed job is applied; the loop goes round
CompleteSaved(l) ==
  /\ loops[l].pc = "complete"
  /\ jobs' = SaveJob(loops[l].job, loops[l].dirty)
  /\ loops' = [loops EXCEPT ![l] = [IdleLoop EXCEPT !.pc = "find"]]
  /\ UNCHANGED <<now, records, isProcessing, calls, owner, claimLog, insertLog, faults, quota, restarts, lookup>>

\* that save rejects: the catch block runs on the job as modified so far
CompleteThrew(l) ==
  /\ loops[l].pc = "complete"
  /\ loops' = [loops EXCEPT ![l] = Caught(@, StoreError)]
  /\ Fault
  /\ UNCHANGED <<now, jobs, records, isProcessing, calls, owner, claimLog, insertLog, quota, restarts, lookup>>

\* the save of the catch block is applied; the loop goes round
FailSaved(l) ==
  /\ loops[l].pc = "fail"
  /\ jobs' = SaveJob(loops[l].job, loops[l].dirty)
  /\ loops' = [loops EXCEPT ![l] = [IdleLoop EXCEPT !.pc = "find"]]
  /\ UNCHANGED <<now, records, isProcessing, calls, owner, claimLog, insertLog, faults, quota, restarts, lookup>>

\* the save of the catch block rejects: processJob and processQueue reject
FailThrew(l) ==
  /\ loops[l].pc = "fail"
  /\ loops' = [loops EXCEPT ![l] = IdleLoop]
  /\ Fault
  /\ UNCHANGED <<now, jobs, records, isProcessing, calls, owner, claimLog, insertLog, quota, restarts, lookup>>

\* getJobStatus that starts the drain when it is idle
getJobStatusKick(jobId) ==
  /\ lookup' = IF \E i \in DOMAIN jobs : jobs[i].jobId = jobId
                 THEN [jobId |-> jobId, found |-> TRUE,
                       job |-> jobs[CHOOSE i \in DOMAIN jobs : jobs[i].jobId = jobId]]
                 ELSE [jobId |-> jobId, found |-> FALSE, job |-> NoJob]
  /\ processQueue(1)
  /\ UNCHANGED <<now, jobs, records, calls, owner, claimLog,
                 insertLog, faults, quota, restarts>>

\* getJobStatus: Job.findOne({ jobId }) evaluated by the store and returned
getJobStatus(jobId) ==
  /\ lookup' = IF \E i \in DOMAIN jobs : jobs[i].jobId = jobId
                 THEN [jobId |-> jobId, found |-> TRUE,
                       job |-> jobs[CHOOSE i \in DOMAIN jobs : jobs[i].jobId = jobId]]
                 ELSE [jobId |-> jobId, found |-> FALSE, job |-> NoJob]
  /\ UNCHANGED <<now, jobs, records, isProcessing, calls, loops, owner, claimLog,
                 insertLog, faults, quota, restarts>>

\* the server process stops and is started again: the module is loaded and
\* the JobQueue constructed anew, with no drain running and the flag down; the
\* calls and loops of the old process are gone, the collections stay
Restart ==
  /\ restarts < MaxRestarts
  /\ restarts' = restarts + 1
  /\ isProcessing' = [d \in DOMAIN isProcessing |-> FALSE]
  /\ loops' = [l \in Loops |-> IdleLoop]
  /\ calls' = [c \in DOMAIN calls |->
                 IF calls[c].pc \in {"save", "saved"}
                   THEN [calls[c] EXCEPT !.pc = "lost"]
                   ELSE calls[c]]
  /\ UNCHANGED <<now, jobs, records, owner, claimLog, insertLog, faults, quota, lookup>>

Disps == {owner[l] : l \in Loops}

\* an awaited call settles and the code after it runs to the next await
Settle ==
  \/ \E c \in DOMAIN calls : EnqueueSaved(c)
  \/ \E c \in DOMAIN calls : EnqueueSaveThrew(c)
  \/ \E c \in DOMAIN calls : EnqueueResume(c)
  \/ \E l \in Loops : DrainFind(l)
  \/ \E l \in Loops : DrainFindThrew(l)
  \/ \E l \in Loops : DrainResume(l)
  \/ \E l \in Loops : MarkSaved(l)
  \/ \E l \in Loops : MarkThrew(l)
  \/ \E l \in Loops : DownloadDone(l)
  \/ \E l \in Loops : DownloadThrew(l)
  \/ \E l \in Loops : InsertManyDone(l)
  \/ \E l \in Loops : InsertManyThrew(l)
  \/ \E l \in Loops : FinalInsertDone(l)
  \/ \E l \in Loops : FinalInsertThrew(l)
  \/ \E l \in Loops : CompleteSaved(l)
  \/ \E l \in Loops : CompleteThrew(l)
  \/ \E l \in Loops : FailSaved(l)
  \/ \E l \in Loops : FailThrew(l)

Next ==
  \/ \E d \in Disps, u \in Uploads : EnqueueJob(d, u[1], u[2])
  \/ Settle

\* the requests name any object of the bucket
NextFile ==
  \/ \E d \in Disps, u \in FileUploads : EnqueueJob(d, u[1], u[2])
  \/ Settle

\* one-line files, with no call rejecting
NextLine ==
  \/ \E d \in Disps, u \in LineUploads : EnqueueJob(d, u[1], u[2])
  \/ \E c \in DOMAIN calls : EnqueueSaved(c)
  \/ \E c \in DOMAIN calls : EnqueueResume(c)
  \/ \E l \in Loops : DrainFind(l)
  \/ \E l \in Loops : DrainResume(l)
  \/ \E l \in Loops : MarkSaved(l)
  \/ \E l \in Loops : DownloadDone(l)
  \/ \E l \in Loops : FinalInsertDone(l)
  \/ \E l \in Loops : CompleteSaved(l)

\* the jobIds a status request may name: those handed out, and one more
JobIds == 1..(MaxJobs + 1)

\* clients also ask for the status of jobs
NextStatus ==
  \/ Next
  \/ \E jobId \in JobIds : getJobStatus(jobId)

\* the server may also be restarted
NextRestart ==
  \/ Next
  \/ Restart

\* one JobQueue instance
Spec == Init /\ [][Next]_vars

\* two JobQueue instances on the same stores
SpecTwo == InitTwo /\ [][Next]_vars

\* one JobQueue instance, one request, any object
SpecFile == InitFile /\ [][NextFile]_vars

\* one JobQueue instance, one request for a one-line file, no call rejecting
SpecLine == InitFile /\ [][NextLine]_vars

\* one JobQueue instance, one request, and clients that poll job status
SpecStatus == InitFile /\ [][NextStatus]_vars

\* one JobQueue instance in a server that may be stopped and started again
SpecRestart == Init /\ [][NextRestart]_vars

\* ---------------------------------------------------------------- claims
Terminal == {"completed", "failed"}

InProcessJob == {"mark", "download", "flush", "finalflush", "complete", "fail"}

\* the position of the document with this jobId in the job collection
Stored(jobId) == CHOOSE i \in DOMAIN jobs : jobs[i].jobId = jobId

AllowedTransitions ==
  {<<"pending", "processing">>, <<"processing", "completed">>,
   <<"processing", "failed">>}

\* C1: the persisted status of a job only changes along pending -> processing
\* -> completed or pending -> processing -> failed; a completed or failed job
\* never changes status again and processing is never re-entered.
C1_StatusTransitions ==
  [][\A i \in DOMAIN jobs :
       jobs'[i].status # jobs[i].status
         => <<jobs[i].status, jobs'[i].status>> \in AllowedTransitions]_vars

\* C2: no job is starved: even when no call rejects, once every enqueueJob
\* call has returned and no drain loop is running, every job that was created
\* has reached completed or failed.
C2_NoStarvation ==
  (/\ faults = 0
   /\ \A c \in DOMAIN calls : calls[c].pc = "returned"
   /\ \A l \in Loops : loops[l].pc = "idle")
    => \A i \in DOMAIN jobs : jobs[i].status \in Terminal

C4_Fifo ==
  \A a \in DOMAIN jobs, b \in DOMAIN jobs :
    (jobs[a].createdAt < jobs[b].createdAt /\ jobs[b].status # "pending")
      => jobs[a].status \in Terminal

\* C5: a failure inside processJob never aborts the drain: a drain loop that
\* is inside processJob never ends there, it goes on to the next findOne.
C5_DrainSurvives ==
  [][\A l \in Loops :
       loops[l].pc \in InProcessJob => loops'[l].pc # "idle"]_vars

\* C6: when obtaining the source stream fails, the catch block leaves the job
\* failed with the failure's message as error, completedAt stamped and no
\* result; no insertMany call has been made for the job; and when the save of
\* the catch block is applied the stored job is exactly that, with no record
\* inserted.
C6_StreamFailure ==
  [][\A l \in Loops :
       /\ (loops[l].pc = "download" /\ loops'[l].pc = "fail")
            => /\ loops'[l].job.status = "failed"
               /\ loops'[l].job.error = <<S3Error>>
               /\ loops'[l].job.completedAt = now
               /\ loops'[l].job.completedAt # 0
               /\ loops'[l].job.result = <<>>
               /\ records' = records
               /\ \A k \in DOMAIN insertLog : insertLog[k].job # loops[l].job.jobId
       /\ (loops[l].pc = "fail" /\ loops[l].job.error = <<S3Error>>
             /\ loops'[l].pc = "find")
            => LET j == jobs'[Stored(loops[l].job.jobId)]
               IN /\ j.status = "failed"
                  /\ j.error = <<S3Error>>
                  /\ j.completedAt # 0
                  /\ j.result = <<>>
                  /\ records' = records
                  /\ \A k \in DOMAIN insertLog' : insertLog'[k].job # j.jobId]_vars

\* C6 witness: a job whose stream could not be obtained is stored as failed.
C6_Witness ==
  \E i \in DOMAIN jobs :
    /\ jobs[i].status = "failed"
    /\ jobs[i].error = <<S3Error>>
    /\ jobs[i].startedAt # 0

\* C7: a rejected insertMany fails the job: processFileContent never returns a
\* Result from a run in which one of its insertMany calls rejected.
C7_InsertFailureFailsJob ==
  \A l \in Loops :
    loops[l].pc = "complete"
      => \A k \in DOMAIN insertLog :
           insertLog[k].job = loops[l].job.jobId => insertLog[k].ok

\* C8: every Result returned by processFileContent satisfies
\* successfulInserts + failedLines = totalLines.
C8_ResultAccounting ==
  \A l \in Loops :
    loops[l].pc = "complete"
      => LET r == loops[l].job.result[1]
         IN r.successfulInserts + r.failedLines = r.totalLines

\* C9: a stored job that is completed has a result and no error, and a stored
\* job that is failed has an error and no result.
C9_ResultXorError ==
  \A i \in DOMAIN jobs :
    /\ jobs[i].status = "completed" => (jobs[i].result # <<>> /\ jobs[i].error = <<>>)
    /\ jobs[i].status = "failed" => (jobs[i].error # <<>> /\ jobs[i].result = <<>>)

\* C10: with two drains on the same job collection no job is claimed twice:
\* no jobId is marked processing by more than one save.
C10_ClaimedOnce ==
  \A a \in DOMAIN claimLog, b \in DOMAIN claimLog :
    a # b => claimLog[a] # claimLog[b]

\* ------------------------------------------------- claims on the pipeline
\* the lines of the object the job of a loop names
FileOf(l) == Objects[loops[l].job.fileName]

\* no insertMany call made for the job of a loop has rejected
InsertsOk(l) ==
  \A k \in DOMAIN insertLog :
    insertLog[k].job = loops[l].job.jobId => insertLog[k].ok

\* the lines after the first whose trimmed text is neither empty nor ',,,'
Counted(lines) ==
  {i \in 2..Len(lines) :
     trim(lines[i]) # <<>> /\ trim(lines[i]) # <<",", ",", ",">>}

\* C11: per-line validation failures never abort a run or fail the job: a run
\* that is at its final insertMany or has returned has read every line of the
\* stream, a run that has returned has left the job completed with a Result,
\* and the only failure processFileContent hands to the catch block is a
\* rejected insertMany.
C11_ValidationNeverAborts ==
  \A l \in Loops :
    /\ loops[l].pc \in {"finalflush", "complete"}
         => loops[l].run.pos = Len(FileOf(l)) + 1
    /\ loops[l].pc = "complete"
         => /\ loops[l].job.status = "completed"
            /\ loops[l].job.result # <<>>
            /\ loops[l].job.result[1].totalLines = Cardinality(Counted(FileOf(l)))
    /\ loops[l].pc = "fail"
         => /\ loops[l].job.error \in {<<StoreError>>, <<S3Error>>, <<InsertError>>}
            /\ loops[l].job.error = <<InsertError>> => ~InsertsOk(l)

\* C11 witness: a job is stored as completed with a Result in which every
\* counted line failed validation.
C11_Witness ==
  \E i \in DOMAIN jobs :
    /\ jobs[i].status = "completed"
    /\ jobs[i].result # <<>>
    /\ jobs[i].result[1].totalLines >= 2
    /\ jobs[i].result[1].failedLines = jobs[i].result[1].totalLines
    /\ \A k \in DOMAIN insertLog : insertLog[k].ok

\* C12: in every Result the five category counters sum to failedLines: every
\* failed line incremented exactly one of them.
C12_OneCategoryPerFailure ==
  \A l \in Loops :
    loops[l].pc = "complete"
      => LET r == loops[l].job.result[1]
             c == r.errorCategories
         IN c.missingFields + c.invalidEmail + c.invalidAge + c.malformedLine
              + c.other = r.failedLines

\* the rules a line breaks, each tested on its own: 1 fewer than 2 fields,
\* 2 blank name, 3 blank email, 4 email shape, 5 age
Broken(trimmedLine) ==
  LET f == parseCSVLine(trimmedLine)
      blank(i) == Len(f) < i \/ trim(f[i]) = <<>>
  IN {n \in 1..5 :
        \/ n = 1 /\ Len(f) < 2
        \/ n = 2 /\ blank(1)
        \/ n = 3 /\ blank(2)
        \/ n = 4 /\ (Len(f) < 2 \/ ~emailRegexTest(trim(f[2])))
        \/ n = 5 /\ ~blank(3)
                 /\ LET a == parseInt(trim(f[3]))
                    IN a.nan \/ a.val < 0 \/ a.val > 150}

RuleCategory ==
  <<"malformedLine", "missingFields", "missingFields", "invalidEmail", "invalidAge">>

\* the category of the earliest rule a line breaks, "" when it breaks none
EarliestCategory(trimmedLine) ==
  LET b == Broken(trimmedLine)
  IN IF b = {} THEN ""
     ELSE RuleCategory[CHOOSE n \in b : \A m \in b : n <= m]

\* C13: a failed line is counted once, under the category of the earliest
\* rule it breaks in the order fields, name, email, email shape, age: when no
\* insertMany rejected, each named counter of the Result is the number of
\* counted lines whose earliest broken rule has that category, and
\* failedLines is the number of counted lines that break some rule.
C13_FirstFailingCheck ==
  \A l \in Loops :
    (loops[l].pc = "complete" /\ InsertsOk(l))
      => LET r == loops[l].job.result[1]
             lines == FileOf(l)
         IN /\ \A cat \in {"malformedLine", "missingFields", "invalidEmail", "invalidAge"} :
                 r.errorCategories[cat]
                   = Cardinality({i \in Counted(lines) :
                                    EarliestCategory(trim(lines[i])) = cat})
            /\ r.errorCategories.other = 0
            /\ r.failedLines
                 = Cardinality({i \in Counted(lines) : Broken(trim(lines[i])) # {}})

\* C13 witness: a run has returned for a file with a line that breaks three
\* rules at once and a line that breaks two.
C13_Witness ==
  \E l \in Loops :
    /\ loops[l].pc = "complete"
    /\ InsertsOk(l)
    /\ \E i \in Counted(FileOf(l)) : Cardinality(Broken(trim(FileOf(l)[i]))) = 3
    /\ \E i \in Counted(FileOf(l)) : Cardinality(Broken(trim(FileOf(l)[i]))) = 2

\* processFileContent run to its end with every insertMany succeeding
RECURSIVE PureRun(_, _, _, _)
PureRun(st, rds, fileId, t) ==
  LET reached == RunLines(st, rds, fileId, t)
  IN IF reached.awaiting
       THEN PureRun(FlushDone(reached), rds, fileId, t)
       ELSE reached

\* the Result of such a run over the given lines
PureResult(lines, fileId, t) ==
  LET st == PureRun(NewRun, [i \in DOMAIN lines |-> ReadLine(lines[i])], fileId, t)
  IN MakeResult(st, st.successfulInserts + Len(st.batch))

\* the lines from the lo-th to the hi-th whose index is in keep
RECURSIVE PickRange(_, _, _, _)
PickRange(lines, lo, hi, keep) ==
  IF lo > hi THEN <<>>
  ELSE IF lo = hi THEN (IF lo \in keep THEN <<lines[lo]>> ELSE <<>>)
  ELSE PickRange(lines, lo, (lo + hi) \div 2, keep)
         \o PickRange(lines, (lo + hi) \div 2 + 1, hi, keep)

\* the lines, from the i-th on, whose index is in keep
Pick(lines, i, keep) == PickRange(lines, i, Len(lines), keep)

\* C14: totalLines is the number of lines after the first whose trimmed text
\* is neither empty nor ',,,', whatever the first line holds, and the skipped
\* lines change nothing: when no insertMany rejected, the Result is the Result
\* of the same file with its blank, whitespace-only and ',,,' lines removed.
C14_SkippedLines ==
  \A l \in Loops :
    loops[l].pc = "complete"
      => LET r == loops[l].job.result[1]
             lines == FileOf(l)
         IN /\ r.totalLines = Cardinality(Counted(lines))
            /\ InsertsOk(l)
                 => r = PureResult(Pick(lines, 1, {1} \cup Counted(lines)),
                                   loops[l].job.fileId, now)

\* C14 witness: a run has returned for a file whose first line is a
\* well-formed data line, whose second line is a skipped one and whose third
\* line is counted.
C14_Witness ==
  \E l \in Loops :
    /\ loops[l].pc = "complete"
    /\ Len(FileOf(l)) = 3
    /\ FileOf(l)[1] = LineKinds[1]
    /\ FileOf(l)[2] \in {LineKinds[2], LineKinds[3]}
    /\ loops[l].job.result[1].totalLines = 1

\* the counted lines that break some rule
FailedLines(lines) == {i \in Counted(lines) : Broken(trim(lines[i])) # {}}

\* the j-th of them in stream order
NthFailed(lines, j) ==
  CHOOSE i \in FailedLines(lines) :
    Cardinality({k \in FailedLines(lines) : k <= i}) = j

C16_SuccessRate ==
  \A l \in Loops :
    loops[l].pc = "complete"
      => LET r == loops[l].job.result[1]
             n == r.successRate
         IN /\ n \in 0..100
            /\ r.totalLines = 0 => n = 0
            /\ r.totalLines > 0
                 => /\ 2 * n * r.totalLines - r.totalLines <= 200 * r.successfulInserts
                    /\ 200 * r.successfulInserts < 2 * n * r.totalLines + r.totalLines

\* C17: no insertMany call carries more than 100 records and the batch
\* buffer never holds more than 100 records.
C17_BatchBound ==
  /\ \A k \in DOMAIN insertLog : insertLog[k].size <= 100
  /\ \A l \in Loops : Len(loops[l].run.batch) <= 100

\* the number of records the first k insertMany calls have inserted
RECURSIVE Inserted(_)
Inserted(k) ==
  IF k = 0 THEN 0
  ELSE Inserted(k - 1) + (IF insertLog[k].ok THEN insertLog[k].size ELSE 0)

\* the records inserted for a job by the insertMany calls from the k-th on
RECURSIVE RecordsFrom(_, _)
RecordsFrom(jobId, k) ==
  IF k > Len(insertLog) THEN <<>>
  ELSE (IF insertLog[k].ok /\ insertLog[k].job = jobId
          THEN SubSeq(records, Inserted(k - 1) + 1, Inserted(k))
          ELSE <<>>) \o RecordsFrom(jobId, k + 1)

\* the records of the lines from the lo-th to the hi-th that are counted and
\* break no rule, in input order, without their processedAt
RECURSIVE ValidRecordsRange(_, _, _, _)
ValidRecordsRange(lines, lo, hi, fileId) ==
  IF lo > hi THEN <<>>
  ELSE IF lo = hi
    THEN (IF /\ lo >= 2
             /\ trim(lines[lo]) \notin {<<>>, <<",", ",", ",">>}
             /\ Broken(trim(lines[lo])) = {}
            THEN <<MakeRecord(ValidateLine(trim(lines[lo])).clean, fileId, 0)>>
            ELSE <<>>)
  ELSE ValidRecordsRange(lines, lo, (lo + hi) \div 2, fileId)
         \o ValidRecordsRange(lines, (lo + hi) \div 2 + 1, hi, fileId)

\* those records for the lines from the i-th on
ValidRecords(lines, i, fileId) == ValidRecordsRange(lines, i, Len(lines), fileId)

\* C18: when a run has returned, the records inserted for its job are the
\* records of the lines that passed validation, each once, in input order,
\* and their number is successfulInserts.
C18_InsertedExactlyValid ==
  \A l \in Loops :
    loops[l].pc = "complete"
      => LET mine == RecordsFrom(loops[l].job.jobId, 1)
         IN /\ [i \in DOMAIN mine |-> [mine[i] EXCEPT !.processedAt = 0]]
                 = ValidRecords(FileOf(l), 1, loops[l].job.fileId)
            /\ Len(mine) = loops[l].job.result[1].successfulInserts

\* C18 witness: a run has returned after a full batch and a partly filled
\* last batch were inserted, for a file with lines that failed.
C18_Witness ==
  \E l \in Loops :
    /\ loops[l].pc = "complete"
    /\ Len(RecordsFrom(loops[l].job.jobId, 1)) > 100
    /\ Len(RecordsFrom(loops[l].job.jobId, 1)) % 100 # 0
    /\ loops[l].job.result[1].failedLines > 0

\* ----------------------------------------------- claims on the dispatch
\* C19: enqueueJob never waits for the drain: once its save is applied it can
\* always go on, whatever the drain is doing; it then returns its job, stored
\* and with status pending, having started a drain loop exactly when the
\* guard flag was down and having left the running loop alone otherwise.
C19_EnqueueNeverWaits ==
  /\ [](\A c \in DOMAIN calls : calls[c].pc = "saved" => ENABLED EnqueueResume(c))
  /\ [][\A c \in DOMAIN calls :
          (calls[c].pc = "saved" /\ calls'[c].pc = "returned")
            => LET d == calls[c].disp
               IN /\ calls'[c].job.status = "pending"
                  /\ \E i \in DOMAIN jobs : jobs[i].jobId = calls'[c].job.jobId
                  /\ jobs' = jobs
                  /\ isProcessing'[d]
                  /\ isProcessing[d] => loops' = loops
                  /\ ~isProcessing[d]
                       => Cardinality({l \in Loops : loops'[l] # loops[l]}) = 1]_vars

\* C19 witness: an enqueueJob call has returned while the drain is inside
\* processJob on an earlier job and the call's own job is still pending.
C19_Witness ==
  \E c \in DOMAIN calls, l \in Loops :
    /\ calls[c].pc = "returned"
    /\ loops[l].pc \in {"download", "flush", "finalflush"}
    /\ loops[l].job.jobId # calls[c].job.jobId
    /\ loops[l].job.createdAt < calls[c].job.createdAt
    /\ \E i \in DOMAIN jobs :
         jobs[i].jobId = calls[c].job.jobId /\ jobs[i].status = "pending"

Quiet ==
  /\ \A c \in DOMAIN calls : calls[c].pc \notin {"save", "saved"}
  /\ \A l \in Loops : loops[l].pc = "idle"

\* C21: jobs survive a server restart: after a restart, with no call having
\* rejected, the server does not come to rest (no enqueueJob call in flight,
\* no drain loop running) while a stored job is still pending or processing;
\* the interrupted and the pending jobs reach completed or failed.
C21_RestartRecovery ==
  (restarts > 0 /\ faults = 0 /\ Quiet)
    => \A i \in DOMAIN jobs : jobs[i].status \in Terminal

\* ------------------------------------------------ claims on single lines
\* the generated text the one-line file of a loop's job was made from
TextOf(l) == Tail(loops[l].job.fileName)

\* the loop's run has returned for a generated file of the given kind
Returned(l, kind) ==
  /\ loops[l].pc = "complete"
  /\ loops[l].job.fileName # <<>>
  /\ Head(loops[l].job.fileName) = kind

\* an optional minus sign and then decimal digits, at least one, only
IsIntegerText(t) ==
  LET digits == IF t # <<>> /\ Head(t) = "-" THEN Tail(t) ELSE t
  IN digits # <<>> /\ \A i \in DOMAIN digits : IsDigit(digits[i])

RECURSIVE DigitsValue(_)
DigitsValue(t) ==
  IF t = <<>> THEN 0
  ELSE 10 * DigitsValue(SubSeq(t, 1, Len(t) - 1)) + DigitVal(t[Len(t)])

IntegerValue(t) ==
  IF Head(t) = "-" THEN 0 - DigitsValue(Tail(t)) ELSE DigitsValue(t)

\* C22: age policy: a line with no age field or a blank one is valid and its
\* record has a null age; a line with a non-blank age field is valid exactly
\* when the field is an integer from 0 to 150, and is then stored with that
\* age; any other non-blank age field fails the line as invalidAge.
C22_AgePolicy ==
  \A l \in Loops :
    (Returned(l, "age") \/ Returned(l, "noage"))
      => LET age == trim(TextOf(l))
             good == IsIntegerText(age) /\ IntegerValue(age) \in 0..150
             r == loops[l].job.result[1]
             mine == RecordsFrom(loops[l].job.jobId, 1)
         IN IF age = <<>>
              THEN r.failedLines = 0 /\ Len(mine) = 1 /\ mine[1].age = <<>>
            ELSE IF good
              THEN r.failedLines = 0 /\ Len(mine) = 1
                   /\ mine[1].age = <<IntegerValue(age)>>
            ELSE /\ r.failedLines = 1
                 /\ r.errorCategories.invalidAge = 1
                 /\ mine = <<>>

\* local@domain: no whitespace, exactly one '@', not in first place, and in
\* the domain a '.' with text on both sides
EmailShape(e) ==
  /\ \A i \in DOMAIN e : ~IsSpace(e[i])
  /\ Cardinality({i \in DOMAIN e : e[i] = "@"}) = 1
  /\ LET at == CHOOSE i \in DOMAIN e : e[i] = "@"
     IN /\ at > 1
        /\ \E d \in DOMAIN e : e[d] = "." /\ at + 1 < d /\ d < Len(e)

\* C23: email policy: a line with a non-blank name and a non-blank email
\* passes the email check exactly when the trimmed email has the shape
\* local@domain; it is then stored, trimmed and lower-cased, and otherwise
\* the line fails as invalidEmail.
C23_EmailPolicy ==
  \A l \in Loops :
    (Returned(l, "email") /\ trim(TextOf(l)) # <<>>)
      => LET email == trim(TextOf(l))
             r == loops[l].job.result[1]
             mine == RecordsFrom(loops[l].job.jobId, 1)
         IN IF EmailShape(email)
              THEN r.failedLines = 0 /\ Len(mine) = 1
                   /\ mine[1].email = toLowerCase(email)
              ELSE /\ r.failedLines = 1
                   /\ r.errorCategories.invalidEmail = 1
                   /\ mine = <<>>

\* C23 witness: a run has returned for a line whose email is the shortest
\* text of the shape, with a blank on either side.
C23_Witness ==
  \E l \in Loops :
    /\ Returned(l, "email")
    /\ TextOf(l) = <<"A", "@", "A", ".", "A">>
    /\ loops[l].job.result[1].failedLines = 0

\* the commas of a line that have an even number of '"' before them
Separators(line) ==
  {i \in DOMAIN line :
     /\ line[i] = ","
     /\ Cardinality({k \in 1..(i - 1) : line[k] = "\""}) % 2 = 0}

NotQuote(c) == c # "\""

\* the text between the (j-1)-th and the j-th separator, without its quotes
FieldBetween(line, j) ==
  LET seps == Separators(line)
      before == {i \in seps : Cardinality({k \in seps : k <= i}) = j - 1}
      after == {i \in seps : Cardinality({k \in seps : k <= i}) = j}
      from == IF before = {} THEN 1 ELSE (CHOOSE i \in before : TRUE) + 1
      to == IF after = {} THEN Len(line) ELSE (CHOOSE i \in after : TRUE) - 1
  IN SelectSeq(SubSeq(line, from, to), NotQuote)

\* C24: parseCSVLine splits a line on exactly the commas outside quoted
\* spans, each '"' toggling the quoting: it returns one field more than
\* there are such commas, at least one, the fields being the texts between
\* them in order with the quote characters removed; a line with no such
\* comma therefore fails as malformedLine and no other line does.
C24_ParseCsvLine ==
  \A l \in Loops :
    (loops[l].job.fileName # <<>> /\ Head(loops[l].job.fileName) = "csv")
      => LET line == TextOf(l)
             fields == parseCSVLine(line)
         IN /\ Len(fields) >= 1
            /\ Len(fields) = Cardinality(Separators(line)) + 1
            /\ \A j \in DOMAIN fields : fields[j] = FieldBetween(line, j)
            /\ (loops[l].pc = "complete" /\ loops[l].job.result[1].totalLines = 1)
                 => (loops[l].job.result[1].errorCategories.malformedLine = 1
                       <=> Separators(line) = {})

\* C24 witness: a run has returned for the line '",",a', whose first field is
\* a quoted comma.
C24_Witness ==
  \E l \in Loops :
    /\ Returned(l, "csv")
    /\ TextOf(l) = <<"\"", ",", "\"", ",", "a">>
    /\ parseCSVLine(TextOf(l)) = <<<<",">>, <<"a">>>>
    /\ loops[l].job.result[1].errorCategories.invalidEmail = 1

\* ------------------------------------------------------ claims, continued
\* C25: getJobStatus is a read-only lookup: it returns the stored job with
\* the given jobId, or not-found when there is none, and changes no job, no
\* record and not the guard flag, nor anything else of the queue, whatever
\* the drain is doing.
C25_ReadOnlyLookup ==
  [][lookup' # lookup
       => /\ UNCHANGED <<jobs, records, isProcessing, loops, calls, claimLog, insertLog>>
          /\ lookup'.found <=> \E i \in DOMAIN jobs : jobs[i].jobId = lookup'.jobId
          /\ lookup'.found
               => /\ lookup'.job.jobId = lookup'.jobId
                  /\ \E i \in DOMAIN jobs : jobs[i] = lookup'.job]_vars

\* C25 witness: a status request has returned a job as processing while the
\* drain is suspended in an insertMany for that job.
C25_Witness ==
  \E l \in Loops :
    /\ loops[l].pc = "flush"
    /\ lookup.found
    /\ lookup.job.jobId = loops[l].job.jobId
    /\ lookup.job.status = "processing"

\* C26: the line of each error sample is the 1-based number of the offending
\* line in the source, the first line counted, also when blank or ',,,'
\* lines come before it.
C26_ErrorLineNumber ==
  \A l \in Loops :
    (loops[l].pc = "complete" /\ InsertsOk(l))
      => LET r == loops[l].job.result[1]
         IN \A j \in DOMAIN r.errors :
              r.errors[j].line = NthFailed(FileOf(l), j)

\* C27: a failed run is not rolled back: when an insertMany rejects after an
\* earlier batch of the same job was inserted, the job ends failed, the
\* batches inserted before stay in the record store, and no record of the
\* failing batch or of later lines is inserted.
C27_FailedRunNotRolledBack ==
  \A k \in DOMAIN insertLog :
    (/\ ~insertLog[k].ok
     /\ \E m \in 1..(k - 1) : insertLog[m].ok /\ insertLog[m].job = insertLog[k].job)
      => LET id == insertLog[k].job
         IN /\ Len(records) = Inserted(Len(insertLog))
            /\ RecordsFrom(id, k) = <<>>
            /\ \/ \E l \in Loops :
                    /\ loops[l].job.jobId = id
                    /\ loops[l].pc = "fail"
                    /\ loops[l].job.status = "failed"
               \/ jobs[Stored(id)].status = "failed"

\* C28: the drain ends only when no pending job remains: in every state in
\* which the guard flag is down and no enqueueJob call is in flight, no
\* stored job is pending.
C28_DrainEndsEmpty ==
  (/\ \A d \in DOMAIN isProcessing : ~isProcessing[d]
   /\ \A c \in DOMAIN calls : calls[c].pc \notin {"save", "saved"})
    => \A i \in DOMAIN jobs : jobs[i].status # "pending"

\* C29: the guard flag is up only while a drain loop is running: it is never
\* left up by a loop that has stopped, also when the loop stops because its
\* findOne or the save of the failure handler rejects.
C29_FlagOnlyWhileDraining ==
  \A d \in DOMAIN isProcessing :
    isProcessing[d] => \E l \in Loops : owner[l] = d /\ loops[l].pc # "idle"

\* C30: the timestamps of a stored job follow its status: startedAt is set
\* exactly when the status is not pending, completedAt is set exactly when
\* the status is completed or failed, and createdAt <= startedAt <=
\* completedAt for those that are set.
C30_Timestamps ==
  \A i \in DOMAIN jobs :
    LET j == jobs[i]
    IN /\ j.startedAt # 0 <=> j.status # "pending"
       /\ j.completedAt # 0 <=> j.status \in Terminal
       /\ j.startedAt # 0 => j.createdAt <= j.startedAt
       /\ j.completedAt # 0 => j.createdAt <= j.completedAt
       /\ (j.startedAt # 0 /\ j.completedAt # 0) => j.startedAt <= j.completedAt

\* C30 witness: a job is stored as failed whose save as processing was
\* rejected, so that its startedAt reached the store with the failure.
C30_Witness ==
  \E i \in DOMAIN jobs :
    /\ jobs[i].status = "failed"
    /\ jobs[i].error = <<StoreError>>
    /\ \A k \in DOMAIN claimLog : claimLog[k] # jobs[i].jobId
    /\ jobs[i].startedAt # 0
    /\ jobs[i].completedAt # 0
    /\ \E k \in DOMAIN jobs : jobs[k].status = "completed"

C32_RecordsWellFormed ==
  /\ \A i \in DOMAIN records :
       LET r == records[i]
       IN /\ r.name # <<>>
          /\ trim(r.name) = r.name
          /\ r.email = toLowerCase(r.email)
          /\ \A k \in 1..26 : \A n \in DOMAIN r.email : r.email[n] # Upper[k]
          /\ EmailShape(r.email)
          /\ r.age = <<>> \/ r.age[1] \in 0..150
          /\ r.department = <<>> \/ trim(r.department[1]) = r.department[1]
  /\ \A k \in DOMAIN insertLog :
       insertLog[k].ok
         => \A i \in (Inserted(k - 1) + 1)..Inserted(k) :
              records[i].uploadedFileId = jobs[Stored(insertLog[k].job)].fileId
  /\ \A j \in DOMAIN jobs :
       LET mine == RecordsFrom(jobs[j].jobId, 1)
           valid == ValidRecords(Objects[jobs[j].fileName], 1, jobs[j].fileId)
       IN mine # <<>>
            => /\ Len(mine) <= Len(valid)
               /\ [i \in DOMAIN mine |-> [mine[i] EXCEPT !.processedAt = 0]]
                    = SubSeq(valid, 1, Len(mine))

\* C32 witness: the record of a padded, upper-case line is stored, trimmed
\* and lower-cased, by a run in which another line failed validation.
C32_Witness ==
  \E l \in Loops :
    /\ loops[l].pc = "complete"
    /\ loops[l].job.result[1].failedLines > 0
    /\ records # <<>>
    /\ records[1].name = <<"A", "l">>
    /\ records[1].email = <<"a", "@", "b", ".", "c">>
    /\ records[1].age = <<7>>

\* the outcomes of the insertMany calls made for a job, from the k-th call on
RECURSIVE Outcomes(_, _)
Outcomes(jobId, k) ==
  IF k > Len(insertLog) THEN <<>>
  ELSE (IF insertLog[k].job = jobId THEN <<insertLog[k].ok>> ELSE <<>>)
         \o Outcomes(jobId, k + 1)

\* processFileContent run over the given stream with its threshold insertMany
\* calls settling as outcomes say, up to its final insertMany or its return
RECURSIVE RunWith(_, _, _)
RunWith(st, rds, outcomes) ==
  LET reached == RunLines(st, rds, "", 0)
  IN IF reached.awaiting /\ outcomes # <<>>
       THEN RunWith(IF Head(outcomes)
                      THEN FlushDone(reached)
                      ELSE FlushThrew(reached, rds, InsertError),
                    rds, Tail(outcomes))
       ELSE reached

\* the Result of that run when its final insertMany succeeds
ResultWith(lines, outcomes) ==
  LET st == RunWith(NewRun, [i \in DOMAIN lines |-> ReadLine(lines[i])], outcomes)
  IN MakeResult(st, st.successfulInserts + Len(st.batch))

\* C33: run statistics are per run: the Result of a run that has returned is
\* the Result its own lines and the outcomes of its own insertMany calls
\* give, whatever jobs were processed before it, and two completed jobs over
\* the same lines with the same insert outcomes have the same Result.
C33_StatisticsPerRun ==
  /\ \A l \in Loops :
       loops[l].pc = "complete"
         => loops[l].job.result[1]
              = ResultWith(FileOf(l), Outcomes(loops[l].job.jobId, 1))
  /\ \A a \in DOMAIN jobs, b \in DOMAIN jobs :
       /\ jobs[a].status = "completed"
       /\ jobs[b].status = "completed"
       /\ jobs[a].fileName = jobs[b].fileName
       /\ Outcomes(jobs[a].jobId, 1) = Outcomes(jobs[b].jobId, 1)
       => jobs[a].result = jobs[b].result

\* the run of a second job has returned after a job over the same lines was
\* completed, both with lines that failed
C33_Witness ==
  \E l \in Loops : \E a \in DOMAIN jobs :
    /\ loops[l].pc = "complete"
    /\ jobs[a].status = "completed"
    /\ jobs[a].jobId # loops[l].job.jobId
    /\ jobs[a].fileName = loops[l].job.fileName
    /\ jobs[a].result[1].failedLines > 0
    /\ loops[l].job.result[1].failedLines > 0

\* the object has no line that is counted: it is empty, or a first line alone,
\* or a first line followed by blank, whitespace-only and ',,,' lines
NothingCounted(fileName) ==
  fileName \in DOMAIN Objects /\ Counted(Objects[fileName]) = {}

ZeroResult ==
  [totalLines |-> 0, successfulInserts |-> 0, failedLines |-> 0,
   successRate |-> 0, errorCategories |-> ZeroCategories, errors |-> <<>>]

\* C34: a source that is empty, holds only a first line, or a first line
\* followed by skipped lines makes no insertMany call, and its run returns the
\* Result with totalLines, successfulInserts, failedLines and successRate 0,
\* every category counter 0 and no errors: the job is completed with that
\* Result, and fails only when the download or a save of the job rejects.
C34_NothingToIngest ==
  /\ \A l \in Loops :
       NothingCounted(loops[l].job.fileName)
         => /\ loops[l].pc \notin {"flush", "finalflush"}
            /\ loops[l].pc = "complete" => loops[l].job.result = <<ZeroResult>>
            /\ loops[l].pc = "fail" => loops[l].job.error \in {<<S3Error>>, <<StoreError>>}
  /\ \A i \in DOMAIN jobs :
       NothingCounted(jobs[i].fileName)
         => /\ \A k \in DOMAIN insertLog : insertLog[k].job # jobs[i].jobId
            /\ RecordsFrom(jobs[i].jobId, 1) = <<>>
            /\ jobs[i].status = "completed" => jobs[i].result = <<ZeroResult>>
            /\ jobs[i].status = "failed" => jobs[i].error \in {<<S3Error>>, <<StoreError>>}

\* the job of an object with a first line and two skipped lines, one blank and
\* one ',,,', is stored completed
C34_Witness ==
  \E i \in DOMAIN jobs :
    /\ jobs[i].status = "completed"
    /\ NothingCounted(jobs[i].fileName)
    /\ Len(Objects[jobs[i].fileName]) = 3
    /\ trim(Objects[jobs[i].fileName][2]) = <<>>
    /\ trim(Objects[jobs[i].fileName][3]) = <<",", ",", ",">>

====
